---- MODULE Spec2Model ----
(***************************************************************************)
(* Contact-form submission pipeline of the Astro boilerplate:              *)
(* validateFormData / validateFile / POST (src/src/config/site.config.ts)  *)
(* and the logging helpers of src/src/lib/logger.ts.                       *)
(*                                                                         *)
(* A JavaScript string that carries submitted text is the sequence of its   *)
(* UTF-16 code units; the texts the program fixes itself (messages, keys)  *)
(* are written as TLA+ strings.                                            *)
(* A value returned by FormData.get or Headers.get is an "entry": null, a  *)
(* string, or a File.                                                      *)
(***************************************************************************)
EXTENDS FiniteSets, Integers, Sequences, TLC

VARIABLES resend, pc, req, errors, validated, log, sent, sendResult, response, path,
          submission, returned,
          uiState, values, charCount, inFlight, ignored, outcome,
          window, config, state, localStorage, cookie, listeners, registered, lastOp, notified,
          effects, warned,
          observed, loadedImages, img, pending, started, intersected

\* the POST handler's requests
handlerVars == <<resend, pc, req, errors, validated, log, sent, sendResult, response, path>>

\* the validators applied on their own
validatorVars == <<submission, returned>>

\* the contact form in the browser
formVars == <<uiState, values, charCount, inFlight, ignored, outcome>>

\* the ConsentManager, its storage and its listeners
consentVars ==
  <<window, config, state, localStorage, cookie, listeners, registered, lastOp, notified,
    effects, warned>>

\* the LazyImageLoader and the images of the page
imageVars == <<observed, loadedImages, img, pending, started, intersected>>

vars == <<handlerVars, validatorVars, formVars, consentVars, imageVars>>

outsideHandler == <<validatorVars, formVars, consentVars, imageVars>>

outsideValidator == <<handlerVars, formVars, consentVars, imageVars>>

outsideForm == <<handlerVars, validatorVars, consentVars, imageVars>>

outsideConsent == <<handlerVars, validatorVars, formVars, imageVars>>

outsideImages == <<handlerVars, validatorVars, formVars, consentVars>>

(***************************************************************************)
(* Entries and JavaScript primitives                                       *)
(***************************************************************************)
Null == [kind |-> "null"]

\* the printable ASCII characters in code order: U+0020 to U+005F and
\* U+0061 to U+007E (U+0060, the backtick, cannot be written in a text here)
AsciiLow == " !\"#$%&'()*+,-./0123456789:;<=>?@ABCDEFGHIJKLMNOPQRSTUVWXYZ[\\]^_"

AsciiHigh == "abcdefghijklmnopqrstuvwxyz{|}~"

\* the code unit of each character a text of this module is written with
AsciiCode ==
  [c \in {SubSeq(AsciiLow, k, k) : k \in 1..Len(AsciiLow)}
           \cup {SubSeq(AsciiHigh, k, k) : k \in 1..Len(AsciiHigh)}
           \cup {"\t", "\n", "\f", "\r"} |->
     IF c = "\t" THEN 9
     ELSE IF c = "\n" THEN 10
     ELSE IF c = "\f" THEN 12
     ELSE IF c = "\r" THEN 13
     ELSE IF \E k \in 1..Len(AsciiLow) : SubSeq(AsciiLow, k, k) = c
     THEN 31 + (CHOOSE k \in 1..Len(AsciiLow) : SubSeq(AsciiLow, k, k) = c)
     ELSE 96 + (CHOOSE k \in 1..Len(AsciiHigh) : SubSeq(AsciiHigh, k, k) = c)]

RECURSIVE CodeUnitsFrom(_, _)
CodeUnitsFrom(text, i) ==
  IF i > Len(text) THEN << >>
  ELSE <<AsciiCode[SubSeq(text, i, i)]>> \o CodeUnitsFrom(text, i + 1)

\* the JavaScript string with this text: its UTF-16 code units
JsString(text) == CodeUnitsFrom(text, 1)

\* the code unit of one character
CodeUnit(c) == AsciiCode[c]

\* a string entry, from its text
Str(text) == [kind |-> "string", v |-> JsString(text)]

FileOf(n, sz, t) == [kind |-> "file", name |-> n, size |-> sz, type |-> t]

\* JS truthiness of an entry: null and "" are falsy, a File object is truthy
Truthy(e) == e.kind = "file" \/ (e.kind = "string" /\ e.v # << >>)

\* a || b
OrElse(a, b) == IF Truthy(a) THEN a ELSE b

\* s[i], the i-th code unit (from 1)
CharAt(s, i) == s[i]

\* the code units that \s of a RegExp without the u flag and
\* String.prototype.trim take for white space (ECMAScript WhiteSpace and
\* LineTerminator): TAB, LF, VT, FF, CR, SPACE, U+00A0, U+1680,
\* U+2000..U+200A, U+2028, U+2029, U+202F, U+205F, U+3000, U+FEFF
IsSpace(c) ==
  c \in {9, 10, 11, 12, 13, 32, 160, 5760} \cup (8192..8202)
          \cup {8232, 8233, 8239, 8287, 12288, 65279}

\* \d: the ASCII digits
IsDigit(c) == c \in CodeUnit("0")..CodeUnit("9")

MinOf(S) == CHOOSE x \in S : \A y \in S : x <= y

\* String.prototype.trim
Trim(s) ==
  IF \A i \in 1..Len(s) : IsSpace(CharAt(s, i)) THEN << >>
  ELSE SubSeq(s,
         CHOOSE i \in 1..Len(s) :
           ~IsSpace(CharAt(s, i)) /\ \A j \in 1..(i - 1) : IsSpace(CharAt(s, j)),
         CHOOSE i \in 1..Len(s) :
           ~IsSpace(CharAt(s, i)) /\ \A j \in (i + 1)..Len(s) : IsSpace(CharAt(s, j)))

\* String.prototype.substring(0, n)
Substring0(s, n) == SubSeq(s, 1, IF Len(s) < n THEN Len(s) ELSE n)

\* positions of '@' in s
AtPositions(s) == {i \in 1..Len(s) : CharAt(s, i) = CodeUnit("@")}

\* `${s.split('@')[1]}`: the piece between the first and the second '@';
\* undefined (rendered "undefined" by the template literal) without an '@'
SplitAt1(s) ==
  LET ats == AtPositions(s)
  IN  IF ats = {} THEN JsString("undefined")
      ELSE LET a    == MinOf(ats)
               rest == ats \ {a}
               stop == IF rest = {} THEN Len(s) ELSE MinOf(rest) - 1
           IN  SubSeq(s, a + 1, stop)

RECURSIVE StripFrom(_, _)
StripFrom(s, i) ==
  IF i > Len(s) THEN << >>
  ELSE (IF IsSpace(CharAt(s, i)) \/ CharAt(s, i) \in {CodeUnit("-"), CodeUnit("("), CodeUnit(")")}
        THEN << >>
        ELSE <<CharAt(s, i)>>)
         \o StripFrom(s, i + 1)

\* s.replace(/[\s\-()]/g, '')
StripPhone(s) == StripFrom(s, 1)

EmptyMap == [k \in {} |-> ""]

(***************************************************************************)
(* Field Validator and File Attachment Checker                             *)
(***************************************************************************)
\* variant: the domain needs no dot (/^[^\s@]+@[^\s@]+$/)
validateEmail_noTld(email) ==
  /\ \A i \in 1..Len(email) : ~IsSpace(CharAt(email, i))
  /\ \E a \in 2..(Len(email) - 1) :
       /\ CharAt(email, a) = CodeUnit("@")
       /\ \A i \in 1..Len(email) : CharAt(email, i) = CodeUnit("@") => i = a

\* /^[^\s@]+@[^\s@]+\.[^\s@]+$/.test(email)
validateEmail(email) ==
  /\ \A i \in 1..Len(email) : ~IsSpace(CharAt(email, i))
  /\ \E a \in 2..Len(email) :
       /\ CharAt(email, a) = CodeUnit("@")
       /\ \A i \in 1..Len(email) : CharAt(email, i) = CodeUnit("@") => i = a
       /\ \E d \in (a + 2)..(Len(email) - 1) : CharAt(email, d) = CodeUnit(".")

\* variant: the first digit may be 0 (/^[+]?[\d]{1,16}$/)
validatePhone_leadingZero(phone) ==
  \/ phone = << >>
  \/ \E t \in {StripPhone(phone)} :
       \E u \in {IF Len(t) > 0 /\ CharAt(t, 1) = CodeUnit("+") THEN SubSeq(t, 2, Len(t)) ELSE t} :
         /\ Len(u) >= 1
         /\ Len(u) <= 16
         /\ \A i \in 1..Len(u) : IsDigit(CharAt(u, i))

\* /^[+]?[1-9][\d]{0,15}$/.test(phone.replace(/[\s\-()]/g, ''))
validatePhone(phone) ==
  \/ phone = << >>
  \/ \E t \in {StripPhone(phone)} :
       \E u \in {IF Len(t) > 0 /\ CharAt(t, 1) = CodeUnit("+") THEN SubSeq(t, 2, Len(t)) ELSE t} :
         /\ Len(u) >= 1
         /\ Len(u) <= 16
         /\ IsDigit(CharAt(u, 1))
         /\ CharAt(u, 1) # CodeUnit("0")
         /\ \A i \in 2..Len(u) : IsDigit(CharAt(u, i))

\* String(x) of an entry handed to a RegExp
ToStr(e) ==
  IF e.kind = "string" THEN e.v
  ELSE IF e.kind = "file" THEN JsString("[object File]")
  ELSE JsString("null")

\* validateFormData calls .trim() / .replace() on a truthy name, phone and
\* message: a File in one of these fields raises a TypeError
validateFormDataThrows(data) ==
  \/ data.name.kind = "file"
  \/ data.phone.kind = "file"
  \/ data.message.kind = "file"

\* the message of that TypeError: the checks run in the order name, phone,
\* message and the first File met raises; the text names the call that failed
\* (data.name.trim(), phone.replace() inside validatePhone, data.message.trim())
validateFormDataError(data) ==
  IF data.name.kind = "file" THEN "data.name.trim is not a function"
  ELSE IF data.phone.kind = "file" THEN "phone.replace is not a function"
  ELSE "data.message.trim is not a function"

\* variant: the name is measured without trimming
NameErrors_untrimmed(data) ==
  IF ~Truthy(data.name) \/ Len(data.name.v) < 2
  THEN "name" :> "Name must be at least 2 characters long"
  ELSE EmptyMap

NameErrors(data) ==
  IF ~Truthy(data.name) \/ Len(Trim(data.name.v)) < 2
  THEN "name" :> "Name must be at least 2 characters long"
  ELSE EmptyMap

EmailErrors(data) ==
  IF ~Truthy(data.email) THEN "email" :> "Email is required"
  ELSE IF ~validateEmail(ToStr(data.email)) THEN "email" :> "Please enter a valid email address"
  ELSE EmptyMap

PhoneErrors(data) ==
  IF Truthy(data.phone) /\ ~validatePhone(data.phone.v)
  THEN "phone" :> "Please enter a valid phone number"
  ELSE EmptyMap

SubjectErrors(data) ==
  IF ~Truthy(data.subject) \/ data.subject = Str("")
  THEN "subject" :> "Please select a subject"
  ELSE EmptyMap

\* variant: the message is measured without trimming
MessageErrors_untrimmed(data) ==
  IF ~Truthy(data.message) \/ Len(data.message.v) < 10
  THEN "message" :> "Message must be at least 10 characters long"
  ELSE EmptyMap

MessageErrors(data) ==
  IF ~Truthy(data.message) \/ Len(Trim(data.message.v)) < 10
  THEN "message" :> "Message must be at least 10 characters long"
  ELSE EmptyMap

ConsentErrors(data) ==
  IF ~Truthy(data.consent)
  THEN "consent" :> "You must agree to the terms and conditions"
  ELSE EmptyMap

\* defined when ~validateFormDataThrows(data)
validateFormData(data) ==
  NameErrors(data) @@ EmailErrors(data) @@ PhoneErrors(data) @@
  SubjectErrors(data) @@ MessageErrors(data) @@ ConsentErrors(data)

maxSize == 5 * 1024 * 1024

allowedTypes ==
  { "application/pdf",
    "application/msword",
    "application/vnd.openxmlformats-officedocument.wordprocessingml.document",
    "text/plain",
    "image/jpeg",
    "image/jpg",
    "image/png",
    "image/gif" }

\* variant: a file of exactly maxSize bytes is refused
validateFile_inclusive(file) ==
  IF ~Truthy(file) THEN Null
  ELSE IF file.kind = "file" /\ file.size >= maxSize
       THEN [kind |-> "message", text |-> "File size must be less than 5MB"]
  ELSE IF ~(file.kind = "file" /\ file.type \in allowedTypes)
       THEN [kind |-> "message", text |-> "File type not allowed. Please upload PDF, DOC, DOCX, TXT, JPG, JPEG, PNG, or GIF files"]
  ELSE Null

\* validateFile: null, or the message as [kind, text].  A text part named
\* attachment has neither size nor type: undefined > maxSize is false and
\* allowedTypes.includes(undefined) is false.
validateFile(file) ==
  IF ~Truthy(file) THEN Null
  ELSE IF file.kind = "file" /\ file.size > maxSize
       THEN [kind |-> "message", text |-> "File size must be less than 5MB"]
  ELSE IF ~(file.kind = "file" /\ file.type \in allowedTypes)
       THEN [kind |-> "message", text |-> "File type not allowed. Please upload PDF, DOC, DOCX, TXT, JPG, JPEG, PNG, or GIF files"]
  ELSE Null


(***************************************************************************)
(* Requests                                                                *)
(***************************************************************************)
Reqs == {"r1", "r2"}

BaseForm ==
  [ kind       |-> "form",
    name       |-> Str("Jo Doe"),
    email      |-> Str("john@ex.co"),
    phone      |-> Null,
    subject    |-> Str("general"),
    message    |-> Str("Hello there"),
    consent    |-> Str("on"),
    attachment |-> Null ]

\* what a browser submits for an untouched form
EmptyForm ==
  [ kind       |-> "form",
    name       |-> Str(""),
    email      |-> Str(""),
    phone      |-> Str(""),
    subject    |-> Str(""),
    message    |-> Str(""),
    consent    |-> Null,
    attachment |-> Null ]

\* the part a browser sends for a file input with no file selected
EmptyFilePart == FileOf("", 0, "application/octet-stream")

Names == {Null, Str("J"), Str("  "), FileOf("n.txt", 2, "text/plain")}

Emails ==
  {Null, Str("ab@x.co"), Str("abc@x.co"), Str("invalid-email"), FileOf("e.txt", 2, "text/plain")}

Phones == {Str("+1234567890"), Str("invalid-phone"), FileOf("p.txt", 2, "text/plain")}

\* "constructor" and "__proto__" name properties every object inherits; a
\* subject can also arrive as a file part
Subjects ==
  { Null, Str("support"), Str("bogus"), Str("constructor"), Str("__proto__"),
    FileOf("s.txt", 2, "text/plain") }

\* a textarea line break is sent as CR LF
Messages == {Null, Str("too short"), Str("123456789\r\n")}

Consents == {Null, Str(""), Str("false"), FileOf("c.txt", 2, "text/plain")}

Attachments ==
  { EmptyFilePart,
    FileOf("cv.pdf", 1024, "application/pdf"),
    FileOf("big.pdf", maxSize + 1, "application/pdf"),
    FileOf("run.exe", 1024, "application/x-msdownload") }

Forms ==
  {BaseForm, EmptyForm}
    \cup {[BaseForm EXCEPT !.name = x] : x \in Names}
    \cup {[BaseForm EXCEPT !.email = x] : x \in Emails}
    \cup {[BaseForm EXCEPT !.phone = x] : x \in Phones}
    \cup {[BaseForm EXCEPT !.subject = x] : x \in Subjects}
    \cup {[BaseForm EXCEPT !.message = x] : x \in Messages}
    \cup {[BaseForm EXCEPT !.consent = x] : x \in Consents}
    \cup {[BaseForm EXCEPT !.attachment = x] : x \in Attachments}
    \cup {[BaseForm EXCEPT !.name = Str("J"), !.subject = FileOf("s.txt", 2, "text/plain")]}

Malformed == [kind |-> "malformed"]

ClientIp == "203.0.113.7"

ProxyIp == "198.51.100.9"

\* a request: the two address headers and the body
Requests ==
  {[xff |-> Str(ClientIp), xreal |-> Null, body |-> b] : b \in Forms \cup {Malformed}}
    \cup {[xff |-> Null, xreal |-> x, body |-> b] : x \in {Null, Str(ProxyIp)}, b \in {BaseForm, Malformed}}

\* provider error messages
ProviderErrors == {"API key is invalid", "Rate limit exceeded"}

SendResults ==
  {[kind |-> "ok", id |-> "email-1"]} \cup {[kind |-> "error", message |-> m] : m \in ProviderErrors}

NoResult == [kind |-> "none"]

Threw == [kind |-> "threw"]

(***************************************************************************)
(* Logger (src/src/lib/logger.ts)                                          *)
(***************************************************************************)
logRequest(rq) ==
  [ msg    |-> "API Request",
    method |-> "POST",
    url    |-> "/api/contact",
    ip     |-> OrElse(OrElse(rq.xff, rq.xreal), Str("unknown")) ]

\* responseTime is Date.now() - startTime: the time since the instant the
\* caller names
logResponse(resp, startTime) ==
  [ msg          |-> "API Response",
    method       |-> "POST",
    url          |-> "/api/contact",
    status       |-> resp.status,
    responseTime |-> [until |-> "Date.now()", since |-> startTime],
    success      |-> resp.status < 400 ]

\* { msg, error, ...context }: a key of the spread object comes last and
\* replaces the fixed field of the same name (the left operand of @@ wins)
logError(message, context) ==
  context @@ [msg |-> "Application Error", error |-> message]

\* { msg, event, ...details }
logSecurityEvent(event, details) ==
  details @@ [msg |-> "Security Event", event |-> event]

\* { msg, event, ...details }
logEmailEvent(event, details) ==
  details @@ [msg |-> "Email Event", event |-> event]

\* { msg, operation, duration, ...details }
logPerformance(operation, duration, details) ==
  details @@ [msg |-> "Performance", operation |-> operation, duration |-> duration]

(***************************************************************************)
(* POST /api/contact (src/src/config/site.config.ts, 483-742)              *)
(***************************************************************************)
\* Date.now() - emailStartTime, the time since the send was started
emailDuration == [until |-> "Date.now()", since |-> "emailStartTime"]

\* email ? `${email.substring(0, 3)}***@${email.split('@')[1]}` : 'missing'
\* (defined for a null or string email; a File has no substring method)
maskEmail(email) ==
  IF Truthy(email)
  THEN Substring0(email.v, 3) \o JsString("***@") \o SplitAt1(email.v)
  ELSE JsString("missing")

formDataObj(f) ==
  [ name    |-> f.name,
    email   |-> f.email,
    phone   |-> f.phone,
    subject |-> f.subject,
    message |-> f.message,
    consent |-> f.consent ]

\* variant: the errors object lives at module level and is shared by all
\* requests, so entries of other requests stay in it
combinedErrors_shared(f) ==
  LET fileError == validateFile(f.attachment)
      own == IF fileError # Null
             THEN validateFormData(formDataObj(f)) @@ ("attachment" :> fileError.text)
             ELSE validateFormData(formDataObj(f))
  IN  own @@ errors["r1"] @@ errors["r2"]

\* errors = validateFormData(formDataObj); if (fileError) errors.attachment = fileError
\* (a message is a non-empty string, so it is truthy)
combinedErrors(f) ==
  LET fileError == validateFile(f.attachment)
  IN  IF fileError # Null
      THEN validateFormData(formDataObj(f)) @@ ("attachment" :> fileError.text)
      ELSE validateFormData(formDataObj(f))

\* variant: the guard lets a single validation error through
hasErrors_offByOne(errs) == Cardinality(DOMAIN errs) > 1

\* Object.keys(errors).length > 0
hasErrors(errs) == Cardinality(DOMAIN errs) > 0

subjectOptions ==
  [ general     |-> "General Inquiry",
    support     |-> "Technical Support",
    partnership |-> "Partnership Opportunity",
    feedback    |-> "Feedback & Suggestions",
    other       |-> "Other" ]

\* the methods subjectOptions, an object literal, inherits from
\* Object.prototype
InheritedMethods ==
  { "constructor", "hasOwnProperty", "isPrototypeOf", "propertyIsEnumerable",
    "toLocaleString", "toString", "valueOf",
    "__defineGetter__", "__defineSetter__", "__lookupGetter__", "__lookupSetter__" }

\* `${subjectOptions[key]}` for a key that subjectOptions does not own and
\* its prototype chain answers: __proto__ is Object.prototype itself, the
\* others are built-in functions (Object.prototype.constructor is Object)
InheritedText(key) ==
  IF key = "__proto__" THEN "[object Object]"
  ELSE "function " \o (IF key = "constructor" THEN "Object" ELSE key) \o "() { [native code] }"

\* `${subjectOptions[key]}` for every key that has a truthy property, own or
\* inherited, as [key, text] pairs of strings
SubjectTexts ==
  {[key |-> JsString(k), text |-> JsString(subjectOptions[k])] : k \in DOMAIN subjectOptions}
    \cup {[key |-> JsString(k), text |-> JsString(InheritedText(k))] :
             k \in InheritedMethods \cup {"__proto__"}}

\* `Contact Form: ${subjectOptions[subject] || subject}`: the property key is
\* String(subject); an inherited property is truthy and is rendered as text
emailSubject(subject) ==
  JsString("Contact Form: ") \o
    (IF \E p \in SubjectTexts : p.key = ToStr(subject)
     THEN (CHOOSE p \in SubjectTexts : p.key = ToStr(subject)).text
     ELSE ToStr(subject))

attemptLog(f) ==
  [ msg            |-> "Contact form submission attempt",
    email          |-> maskEmail(f.email),
    subject        |-> f.subject,
    hasAttachment  |-> Truthy(f.attachment),
    attachmentSize |-> IF f.attachment.kind = "file" THEN f.attachment.size ELSE 0 ]

validationFailedLog(f, errs) ==
  [ msg    |-> "Contact form validation failed",
    errors |-> DOMAIN errs,
    email  |-> maskEmail(f.email) ]

validationPassedLog(f) ==
  [ msg     |-> "Contact form validation passed",
    email   |-> maskEmail(f.email),
    subject |-> f.subject ]

sendingLog(f) ==
  logEmailEvent("sending",
    [to |-> "hello@example.com", subject |-> emailSubject(f.subject), hasAttachment |-> Truthy(f.attachment)])

\* the value a client reads back for an entry written by JSON.stringify: null
\* and a string come back as they are; a File, an object without enumerable
\* own properties, comes back as {}
Stringified(e) == IF e.kind = "file" THEN [kind |-> "object"] ELSE e

\* JSON.stringify({ success: false, errors, data: formDataObj }), status 400
rejectedResponse(errs, f) ==
  [ status |-> 400,
    body   |-> [ success |-> FALSE,
                 errors  |-> errs,
                 data    |-> [k \in DOMAIN formDataObj(f) |-> Stringified(formDataObj(f)[k])] ] ]

notConfiguredResponse ==
  [status |-> 500, body |-> [success |-> FALSE, error |-> "Email service not configured. Please try again later."]]

\* variant: the provider's message is appended to the client-facing error
dispatchFailedResponse_leak(emailError) ==
  [status |-> 500, body |-> [success |-> FALSE, error |-> "Failed to send email: " \o emailError.message]]

dispatchFailedResponse(emailError) ==
  [status |-> 500, body |-> [success |-> FALSE, error |-> "Failed to send email. Please try again later."]]

acceptedResponse ==
  [status |-> 200, body |-> [success |-> TRUE, message |-> "Email sent successfully"]]

\* variant: the exception's message is returned to the client
unexpectedErrorResponse_leak(error) ==
  [status |-> 500, body |-> [success |-> FALSE, error |-> error]]

unexpectedErrorResponse(error) ==
  [status |-> 500, body |-> [success |-> FALSE, error |-> "An unexpected error occurred. Please try again later."]]

\* variant: the subject is kept in a module-level variable that the request
\* parsed last overwrites
sendArgs_shared(f) ==
  [ from          |-> "noreply@yourdomain.com",
    to            |-> "hello@example.com",
    subject       |-> IF req["r2"].body.kind = "form" /\ req["r2"].body.subject.kind = "string"
                      THEN emailSubject(req["r2"].body.subject)
                      ELSE emailSubject(f.subject),
    hasAttachment |-> Truthy(f.attachment) ]

\* the argument of resend.emails.send
sendArgs(f) ==
  [ from          |-> "noreply@yourdomain.com",
    to            |-> "hello@example.com",
    subject       |-> emailSubject(f.subject),
    hasAttachment |-> Truthy(f.attachment) ]

\* variant: send is called before the attachment is read, and again after
sendCalls_beforeRead(f) == <<sendArgs(f)>>

\* lines 642-655: the calls of resend.emails.send made before the next await;
\* with an attachment the call waits for attachment.arrayBuffer()
sendCalls(f) == IF Truthy(f.attachment) THEN << >> ELSE <<sendArgs(f)>>

\* variant: the catch block returns its 500 without logging the response
catchLogs_noResponse(rq, error) ==
  << logError(error, [context |-> "contact_form", requestMethod |-> "POST"]),
     logSecurityEvent("unexpected_error",
       [endpoint |-> "/api/contact", method |-> "POST", ip |-> OrElse(rq.xff, rq.xreal)]) >>

\* the catch block: logError, logSecurityEvent, the 500 response, logResponse
catchLogs(rq, error) ==
  << logError(error, [context |-> "contact_form", requestMethod |-> "POST"]),
     logSecurityEvent("unexpected_error",
       [endpoint |-> "/api/contact", method |-> "POST", ip |-> OrElse(rq.xff, rq.xreal)]),
     logResponse(unexpectedErrorResponse(error), "startTime") >>

\* variant: the catch block logs and rethrows instead of responding
caught_rethrow(rq, error, visited, before) ==
  [ logs      |-> before \o catchLogs(rq, error),
    responses |-> << >>,
    visited   |-> visited \o <<"UnexpectedError">>,
    next      |-> "done" ]

\* what the catch block does for an exception raised after the states
\* `visited` and the log records `before`
caught(rq, error, visited, before) ==
  [ logs      |-> before \o catchLogs(rq, error),
    responses |-> <<unexpectedErrorResponse(error)>>,
    visited   |-> visited \o <<"UnexpectedError">>,
    next      |-> "done" ]

NotValidated == [errs |-> EmptyMap, validated |-> FALSE, calls |-> << >>]

\* lines 492-655: from the parsed form data up to the next await
afterFormData(rq, resendOk) ==
  LET f == rq.body
  IN  IF f.email.kind = "file"
      THEN \* line 504: email.substring is not a function
           caught(rq, "email.substring is not a function", << >>, << >>) @@ NotValidated
      ELSE IF validateFormDataThrows(formDataObj(f))
      THEN \* lines 422-444: trim / replace is not a function
           caught(rq, validateFormDataError(formDataObj(f)), <<"Validating">>, <<attemptLog(f)>>)
             @@ NotValidated
      ELSE LET errs == combinedErrors(f)
           IN  IF hasErrors(errs)
               THEN [ logs      |-> << attemptLog(f), validationFailedLog(f, errs),
                                       logResponse(rejectedResponse(errs, f), "startTime") >>,
                      responses |-> <<rejectedResponse(errs, f)>>,
                      visited   |-> <<"Validating", "Rejected">>,
                      next      |-> "done",
                      errs      |-> errs,
                      validated |-> TRUE,
                      calls     |-> << >> ]
               ELSE IF ~resendOk
               THEN [ logs      |-> << attemptLog(f), validationPassedLog(f), sendingLog(f),
                                       logError("Resend API key not configured",
                                         [context |-> "email_send", email |-> maskEmail(f.email)]),
                                       logResponse(notConfiguredResponse, "startTime") >>,
                      responses |-> <<notConfiguredResponse>>,
                      visited   |-> <<"Validating", "Dispatching", "NotConfigured">>,
                      next      |-> "done",
                      errs      |-> errs,
                      validated |-> TRUE,
                      calls     |-> << >> ]
               ELSE [ logs      |-> <<attemptLog(f), validationPassedLog(f), sendingLog(f)>>,
                      responses |-> << >>,
                      visited   |-> <<"Validating", "Dispatching">>,
                      \* await attachment.arrayBuffer() precedes the call of send
                      next      |-> IF Truthy(f.attachment) THEN "arrayBuffer" ELSE "send",
                      errs      |-> errs,
                      validated |-> TRUE,
                      calls     |-> sendCalls(f) ]

\* the provider's error is not looked at: the handler answers 200 regardless
afterSend_ignoreError(f, res) ==
  [ logs      |-> << logPerformance("email_send", emailDuration,
                            [provider |-> "resend", hasAttachment |-> Truthy(f.attachment)]),
                     logEmailEvent("sent",
                       [emailId |-> "unknown", duration |-> emailDuration, email |-> maskEmail(f.email)]),
                     logResponse(acceptedResponse, "startTime") >>,
    responses |-> <<acceptedResponse>>,
    visited   |-> <<"Accepted">>,
    next      |-> "done" ]

\* lines 657-709: the provider answered { data, error }
afterSend(f, res) ==
  IF res.kind = "error"
  THEN [ logs      |-> << logPerformance("email_send", emailDuration,
                            [provider |-> "resend", hasAttachment |-> Truthy(f.attachment)]),
                          logError("Resend error: " \o res.message,
                            [context |-> "email_send", emailError |-> res, email |-> maskEmail(f.email)]),
                          logResponse(dispatchFailedResponse(res), "startTime") >>,
         responses |-> <<dispatchFailedResponse(res)>>,
         visited   |-> <<"DispatchFailed">>,
         next      |-> "done" ]
  ELSE [ logs      |-> << logPerformance("email_send", emailDuration,
                            [provider |-> "resend", hasAttachment |-> Truthy(f.attachment)]),
                          logEmailEvent("sent",
                            [emailId |-> res.id, duration |-> emailDuration, email |-> maskEmail(f.email)]),
                          logResponse(acceptedResponse, "startTime") >>,
         responses |-> <<acceptedResponse>>,
         visited   |-> <<"Accepted">>,
         next      |-> "done" ]

\* the handler of request r logs, returns and moves on as `out` says
Advance(r, out) ==
  /\ log' = [log EXCEPT ![r] = @ \o out.logs]
  /\ response' = [response EXCEPT ![r] = @ \o out.responses]
  /\ path' = [path EXCEPT ![r] = @ \o out.visited]
  /\ pc' = [pc EXCEPT ![r] = out.next]

\* startTime, logRequest(request, startTime), then await request.formData()
Receive(r) ==
  /\ pc[r] = "idle"
  /\ \E rq \in Requests :
       /\ req' = [req EXCEPT ![r] = rq]
       /\ log' = [log EXCEPT ![r] = <<logRequest(rq)>>]
  /\ pc' = [pc EXCEPT ![r] = "formData"]
  /\ path' = [path EXCEPT ![r] = <<"Received">>]
  /\ UNCHANGED <<outsideHandler, resend, errors, validated, sent, sendResult, response>>

\* request.formData() rejects: the body is not form data
FormDataRejects(r) ==
  /\ pc[r] = "formData"
  /\ req[r].body.kind = "malformed"
  /\ Advance(r, caught(req[r], "Failed to parse body as FormData.", << >>, << >>))
  /\ UNCHANGED <<outsideHandler, resend, req, errors, validated, sent, sendResult>>

\* request.formData() resolves
FormDataResolves(r) ==
  /\ pc[r] = "formData"
  /\ req[r].body.kind = "form"
  /\ \E out \in {afterFormData(req[r], resend)} :
       /\ Advance(r, out)
       /\ errors' = [errors EXCEPT ![r] = out.errs]
       /\ validated' = [validated EXCEPT ![r] = out.validated]
       /\ sent' = [sent EXCEPT ![r] = @ \o out.calls]
  /\ UNCHANGED <<outsideHandler, resend, req, sendResult>>

\* attachment.arrayBuffer() resolves: resend.emails.send is called
ArrayBufferResolves(r) ==
  /\ pc[r] = "arrayBuffer"
  /\ sent' = [sent EXCEPT ![r] = Append(@, sendArgs(req[r].body))]
  /\ pc' = [pc EXCEPT ![r] = "send"]
  /\ UNCHANGED <<outsideHandler, resend, req, errors, validated, log, sendResult, response, path>>

\* attachment.arrayBuffer() rejects
ArrayBufferRejects(r) ==
  /\ pc[r] = "arrayBuffer"
  /\ Advance(r, caught(req[r], "The requested file could not be read", << >>, << >>))
  /\ UNCHANGED <<outsideHandler, resend, req, errors, validated, sent, sendResult>>

\* resend.emails.send resolves
SendResolves(r) ==
  /\ pc[r] = "send"
  /\ \E res \in SendResults :
       /\ sendResult' = [sendResult EXCEPT ![r] = res]
       /\ Advance(r, afterSend(req[r].body, res))
  /\ UNCHANGED <<outsideHandler, resend, req, errors, validated, sent>>

\* variant: a rejected send is handled like an error the provider returned
SendRejects_asProviderError(r) ==
  /\ pc[r] = "send"
  /\ sendResult' = [sendResult EXCEPT ![r] = Threw]
  /\ Advance(r, afterSend(req[r].body, [kind |-> "error", message |-> "fetch failed"]))
  /\ UNCHANGED <<outsideHandler, resend, req, errors, validated, sent>>

\* resend.emails.send rejects
SendRejects(r) ==
  /\ pc[r] = "send"
  /\ sendResult' = [sendResult EXCEPT ![r] = Threw]
  /\ Advance(r, caught(req[r], "fetch failed", << >>, << >>))
  /\ UNCHANGED <<outsideHandler, resend, req, errors, validated, sent>>

(***************************************************************************)
(* Client Form Controller (specification section 4.4): the contact form in *)
(* the browser.  A message is a sequence of characters; a character is     *)
(* known by the UTF-16 code units and UTF-8 bytes it takes.                *)
(***************************************************************************)
Chars == {"a", "e-acute", "emoji"}

\* UTF-16 code units of a character: 2 outside the basic plane
Utf16Units(c) == IF c = "emoji" THEN 2 ELSE 1

Utf8Bytes(c) == IF c = "emoji" THEN 4 ELSE IF c = "e-acute" THEN 2 ELSE 1

MaxMessageLen == 2

MaxIgnored == 2

MessagesOfLen(n) == [1..n -> Chars]

TypedMessages == UNION {MessagesOfLen(n) : n \in 0..MaxMessageLen}

RECURSIVE UnitsFrom(_, _)
UnitsFrom(m, i) == IF i > Len(m) THEN 0 ELSE Utf16Units(m[i]) + UnitsFrom(m, i + 1)

\* variant: the counter counts characters, not UTF-16 code units
messageLength_codePoints(m) == Len(m)

\* message.length of a JavaScript string
messageLength(m) == UnitsFrom(m, 1)

EmptyValues == [name |-> "", message |-> << >>, consent |-> FALSE, file |-> "none"]

FormStart ==
  /\ uiState = "Idle"
  /\ values = EmptyValues
  /\ charCount = 0
  /\ inFlight = 0
  /\ ignored = 0
  /\ outcome = "none"

\* a keystroke in the message field
Keystroke ==
  /\ Len(values.message) < MaxMessageLen
  /\ \E c \in Chars :
       /\ values' = [values EXCEPT !.message = Append(@, c)]
       /\ charCount' = messageLength(Append(values.message, c))
  /\ UNCHANGED <<uiState, inFlight, ignored, outcome, outsideForm>>

\* the message field is filled or cleared in one go
FillMessage ==
  /\ \E m \in TypedMessages :
       /\ m # values.message
       /\ values' = [values EXCEPT !.message = m]
       /\ charCount' = messageLength(m)
  /\ UNCHANGED <<uiState, inFlight, ignored, outcome, outsideForm>>

\* the user edits another field, ticks the consent box or chooses a file
EditField ==
  /\ \E n \in {"", "Jo Doe"}, c \in BOOLEAN, f \in {"none", "cv.pdf"} :
       /\ [values EXCEPT !.name = n, !.consent = c, !.file = f] # values
       /\ values' = [values EXCEPT !.name = n, !.consent = c, !.file = f]
  /\ UNCHANGED <<uiState, charCount, inFlight, ignored, outcome, outsideForm>>

\* variant: no guard, every submit trigger sends the form
OnSubmit_noGuard ==
  /\ inFlight <= MaxIgnored
  /\ uiState' = "Submitting"
  /\ inFlight' = inFlight + 1
  /\ UNCHANGED <<values, charCount, ignored, outcome, outsideForm>>

\* a submit trigger: ignored while Submitting, else the submit control is
\* disabled and the fields are POSTed to /api/contact
OnSubmit ==
  /\ IF uiState = "Submitting"
     THEN /\ ignored < MaxIgnored
          /\ ignored' = ignored + 1
          /\ UNCHANGED <<uiState, inFlight>>
     ELSE /\ uiState' = "Submitting"
          /\ inFlight' = inFlight + 1
          /\ UNCHANGED ignored
  /\ UNCHANGED <<values, charCount, outcome, outsideForm>>

Outcomes == {"success", "fieldErrors", "serverError", "networkFailure"}

\* variant: the form is reset whatever the response was
OnResponse_alwaysReset ==
  /\ uiState = "Submitting"
  /\ \E o \in Outcomes : outcome' = o
  /\ values' = EmptyValues
  /\ charCount' = messageLength(EmptyValues.message)
  /\ uiState' = "Idle"
  /\ inFlight' = inFlight - 1
  /\ UNCHANGED <<ignored, outsideForm>>

\* the response arrives (200, 400 with errors, 500) or the request fails:
\* only a success clears the fields and the selected file
OnResponse ==
  /\ uiState = "Submitting"
  /\ \E o \in Outcomes :
       /\ outcome' = o
       /\ values' = IF o = "success" THEN EmptyValues ELSE values
       /\ charCount' = IF o = "success" THEN messageLength(EmptyValues.message) ELSE charCount
  /\ uiState' = "Idle"
  /\ inFlight' = inFlight - 1
  /\ UNCHANGED <<ignored, outsideForm>>

(***************************************************************************)
(* ConsentManager and initConsentManagement (src/src/lib/consent.ts).      *)
(* A ConsentState is [hasConsented, preferences, version]; its timestamp   *)
(* is left out.  A stored item is absent, unparsable, or the JSON text of  *)
(* a state.                                                                *)
(***************************************************************************)
CONSENT_VERSION == "1.0.0"

PreferenceKeys == {"analytics", "marketing", "functional", "required"}

Preferences(a, m, f, r) ==
  [analytics |-> a, marketing |-> m, functional |-> f, required |-> r]

\* lines 78-88, 130-140, 184-194
DefaultState ==
  [ hasConsented |-> FALSE,
    preferences  |-> Preferences(FALSE, FALSE, FALSE, TRUE),
    version      |-> CONSENT_VERSION ]

\* siteConfig.consent
SiteConsentConfig == Preferences(TRUE, TRUE, TRUE, TRUE)

ConsentConfigs == {SiteConsentConfig, Preferences(TRUE, FALSE, TRUE, TRUE)}

NoItem == [kind |-> "none"]

Garbage == [kind |-> "garbage"]

Json(st) == [kind |-> "json", value |-> st]

\* what storage may hold when the page loads: nothing, text that is not
\* JSON, a state saved earlier, a state of another version, and a state of
\* the current version whose required flag is off
StoredItems ==
  { NoItem,
    Garbage,
    Json([hasConsented |-> TRUE, preferences |-> Preferences(TRUE, FALSE, TRUE, TRUE),
          version |-> CONSENT_VERSION]),
    Json([hasConsented |-> TRUE, preferences |-> Preferences(TRUE, TRUE, TRUE, TRUE),
          version |-> "0.9.0"]),
    Json([hasConsented |-> TRUE, preferences |-> Preferences(FALSE, TRUE, FALSE, FALSE),
          version |-> CONSENT_VERSION]) }

\* saveConsentState: nothing is written outside a browser.  In a browser
\* localStorage.setItem either throws (storage full or disabled; setItemThrows)
\* and the catch warns, the cookie assignment that follows it in the try
\* being skipped, or localStorage and the cookie both get the JSON text.
saveConsentState(win, st, stores, setItemThrows) ==
  IF ~win THEN [stores |-> stores, warned |-> << >>]
  ELSE IF setItemThrows THEN [stores |-> stores, warned |-> <<"Failed to save consent state:">>]
  ELSE [stores |-> [localStorage |-> Json(st), cookie |-> Json(st)], warned |-> << >>]

\* loadConsentState: the state, the storage and the warnings after
\* construction
loadConsentState(win, ls, ck, setItemThrows) ==
  LET stores == [localStorage |-> ls, cookie |-> ck]
      kept(st, w) == [state |-> st, stores |-> stores, warned |-> w]
  IN  IF ~win THEN kept(Null, << >>)
      ELSE IF ls.kind = "garbage"
      THEN \* JSON.parse throws: caught, the cookie is not tried
           kept(DefaultState, <<"Failed to load consent state:">>)
      ELSE IF ls.kind = "json" /\ ls.value.version = CONSENT_VERSION
      THEN kept(ls.value, << >>)
      ELSE IF ck.kind = "garbage"
      THEN kept(DefaultState, <<"Failed to load consent state:">>)
      ELSE IF ck.kind = "json" /\ ck.value.version = CONSENT_VERSION
      THEN [state |-> ck.value] @@ saveConsentState(win, ck.value, stores, setItemThrows)
      ELSE kept(DefaultState, << >>)

\* getConsentState: this.state || the default
getConsentState(st) == IF st = Null THEN DefaultState ELSE st

\* hasConsentFor(type)
hasConsentFor(st, type) ==
  getConsentState(st).hasConsented /\ getConsentState(st).preferences[type]

\* Partial<ConsentPreferences>: some of the four keys, each true or false
PartialPreferences ==
  UNION {[K -> BOOLEAN] : K \in { {}, {"analytics"}, {"marketing"}, {"functional"},
                                   {"required"}, {"analytics", "marketing"} }}

\* the new state of setConsent (lines 162-173)
setConsentState(st, preferences) ==
  [ hasConsented |-> TRUE,
    preferences  |-> [k \in PreferenceKeys |->
                        IF k = "required" THEN TRUE
                        ELSE IF k \in DOMAIN preferences THEN preferences[k]
                        ELSE getConsentState(st).preferences[k]],
    version      |-> CONSENT_VERSION ]

\* the new state of revokeConsent (lines 184-194)
revokedState ==
  [ hasConsented |-> FALSE,
    preferences  |-> Preferences(FALSE, FALSE, FALSE, TRUE),
    version      |-> CONSENT_VERSION ]

\* listener functions: a plain one, one that throws, and the one
\* initConsentManagement installs
PlainListeners == {"f", "thrower"}

MaxRegistrations == 2

\* what the listener of initConsentManagement calls (lines 319-337)
initListener(st) ==
  IF st.hasConsented
  THEN << IF st.preferences.analytics THEN "initializeAnalytics" ELSE "disableAnalytics",
          IF st.preferences.marketing THEN "initializeMarketing" ELSE "disableMarketing" >>
  ELSE << >>

\* the calls a listener makes when it is called with st
listenerCalls(fn, st) == IF fn = "init" THEN initListener(st) ELSE << >>

\* notifyListeners from position i on: forEach calls every listener with
\* the state; an exception of a listener is caught with a warning and the
\* loop goes on
RECURSIVE notifyListeners(_, _, _)
notifyListeners(ls, st, i) ==
  IF i > Len(ls) THEN [called |-> << >>, effects |-> << >>, warned |-> << >>]
  ELSE [ called  |-> <<[fn |-> ls[i], state |-> st]>> \o notifyListeners(ls, st, i + 1).called,
         effects |-> listenerCalls(ls[i], st) \o notifyListeners(ls, st, i + 1).effects,
         warned  |-> (IF ls[i] = "thrower" THEN <<"Error in consent listener:">> ELSE << >>)
                       \o notifyListeners(ls, st, i + 1).warned ]

\* this.state = newState; saveConsentState(newState); notifyListeners(newState)
ChangeTo(newState, op) ==
  /\ state' = newState
  /\ \E setItemThrows \in BOOLEAN :
       \E saved \in {saveConsentState(window, newState,
                       [localStorage |-> localStorage, cookie |-> cookie], setItemThrows)} :
         \E out \in {notifyListeners(listeners, newState, 1)} :
           /\ localStorage' = saved.stores.localStorage
           /\ cookie' = saved.stores.cookie
           /\ notified' = out.called
           /\ effects' = out.effects
           /\ warned' = saved.warned \o out.warned
  /\ lastOp' = op
  /\ UNCHANGED <<window, config, listeners, registered, outsideConsent>>

SetConsent ==
  \E preferences \in PartialPreferences :
    ChangeTo(setConsentState(state, preferences), "setConsent")

RevokeConsent == ChangeTo(revokedState, "revokeConsent")

\* acceptAll: setConsent with the three categories as configured
AcceptAll ==
  ChangeTo(setConsentState(state,
             [k \in {"analytics", "marketing", "functional"} |-> config[k]]), "acceptAll")

AcceptRequired ==
  ChangeTo(setConsentState(state,
             [k \in {"analytics", "marketing", "functional"} |-> FALSE]), "acceptRequired")

\* listeners.push(listener); the unsubscribe function is returned (handle)
\* or, in initConsentManagement, dropped
Register(fn, handle) ==
  /\ Len(registered) < MaxRegistrations
  /\ listeners' = Append(listeners, fn)
  /\ registered' = Append(registered, [fn |-> fn, handle |-> handle, unsubscribed |-> FALSE])
  /\ lastOp' = "addListener"
  /\ notified' = << >>
  /\ effects' = << >>
  /\ warned' = << >>
  /\ UNCHANGED <<window, config, state, localStorage, cookie, outsideConsent>>

AddListener == \E fn \in PlainListeners : Register(fn, TRUE)

InitConsentManagement == Register("init", FALSE)

\* listeners.indexOf(listener): 0 when it is not in the array
IndexOf(ls, fn) ==
  IF \E i \in DOMAIN ls : ls[i] = fn
  THEN CHOOSE i \in DOMAIN ls : ls[i] = fn /\ \A j \in 1..(i - 1) : ls[j] # fn
  ELSE 0

\* listeners.splice(index, 1)
Splice(ls, index) == SubSeq(ls, 1, index - 1) \o SubSeq(ls, index + 1, Len(ls))

\* the unsubscribe function returned by the n-th addListener is called
Unsubscribe ==
  \E n \in DOMAIN registered :
    /\ registered[n].handle
    /\ listeners' = IF IndexOf(listeners, registered[n].fn) > 0
                    THEN Splice(listeners, IndexOf(listeners, registered[n].fn))
                    ELSE listeners
    /\ registered' = [registered EXCEPT ![n].unsubscribed = TRUE]
    /\ lastOp' = "unsubscribe"
    /\ notified' = << >>
    /\ effects' = << >>
    /\ warned' = << >>
    /\ UNCHANGED <<window, config, state, localStorage, cookie, outsideConsent>>

\* a fresh page: nothing stored, the site's configuration, no listener
ConsentIdle ==
  /\ window = TRUE
  /\ config = SiteConsentConfig
  /\ state = DefaultState
  /\ localStorage = NoItem
  /\ cookie = NoItem
  /\ listeners = << >>
  /\ registered = << >>
  /\ lastOp = "new"
  /\ notified = << >>
  /\ effects = << >>
  /\ warned = << >>

(***************************************************************************)
(* LazyImageLoader (src/src/lib/images.ts, 98-168)                         *)
(***************************************************************************)
Images == {"hero", "thumb1", "thumb2", "plain"}

NoSrc == "none"

\* the data-src attribute of each image when the page loads: two thumbnails
\* show the same file, one image has no data-src
InitialDataSrc ==
  [i \in Images |->
     IF i = "hero" THEN "hero.jpg"
     ELSE IF i = "plain" THEN NoSrc
     ELSE "thumb.jpg"]

ImagesStart ==
  /\ observed = {}
  /\ loadedImages = {}
  /\ img = [i \in Images |-> [dataSrc |-> InitialDataSrc[i], src |-> "placeholder", class |-> "lazy"]]
  /\ pending = {}
  /\ started = [i \in Images |-> 0]
  /\ intersected = [i \in Images |-> FALSE]

\* the loader's state that handleIntersection reads and writes
LoaderState ==
  [ observed |-> observed, loadedImages |-> loadedImages, img |-> img, pending |-> pending,
    started |-> started, intersected |-> intersected ]

\* loadImage(img): nothing without a data-src or when the src is already in
\* loadedImages; else the src is added and a fetch (new Image) is started
loadImage(st, i) ==
  IF st.img[i].dataSrc = NoSrc \/ st.img[i].dataSrc \in st.loadedImages THEN st
  ELSE [st EXCEPT !.loadedImages = @ \cup {st.img[i].dataSrc},
                  !.img[i].class = "loading",
                  !.pending = @ \cup {i},
                  !.started[i] = @ + 1]

\* one entry of handleIntersection: loadImage and unobserve if intersecting
handleEntry(st, entry) ==
  IF entry.isIntersecting
  THEN [loadImage(st, entry.target) EXCEPT !.observed = @ \ {entry.target},
                                           !.intersected[entry.target] = TRUE]
  ELSE st

\* entries.forEach from position k on
RECURSIVE handleIntersection(_, _, _)
handleIntersection(st, entries, k) ==
  IF k > Len(entries) THEN st
  ELSE handleIntersection(handleEntry(st, entries[k]), entries, k + 1)

\* the batches the observer may report: one or two observed images, each
\* intersecting or not
EntryBatches ==
  {<<[target |-> i, isIntersecting |-> b]>> : i \in observed, b \in BOOLEAN}
    \cup {<<[target |-> p[1], isIntersecting |-> TRUE], [target |-> p[2], isIntersecting |-> TRUE]>> :
            p \in {q \in observed \X observed : q[1] # q[2]}}

\* observe(img)
Observe ==
  /\ \E i \in Images \ observed : observed' = observed \cup {i}
  /\ UNCHANGED <<loadedImages, img, pending, started, intersected, outsideImages>>

\* unobserve(img): the observer stops watching the image; nothing happens
\* for an image it does not watch
Unobserve ==
  /\ \E i \in Images : observed' = observed \ {i}
  /\ UNCHANGED <<loadedImages, img, pending, started, intersected, outsideImages>>

\* disconnect(): the observer stops watching every image
Disconnect ==
  /\ observed' = {}
  /\ UNCHANGED <<loadedImages, img, pending, started, intersected, outsideImages>>

\* the observer's callback runs with a batch of entries
Intersect ==
  /\ \E entries \in EntryBatches :
       \E st \in {handleIntersection(LoaderState, entries, 1)} :
         /\ st # LoaderState
         /\ observed' = st.observed
         /\ loadedImages' = st.loadedImages
         /\ img' = st.img
         /\ pending' = st.pending
         /\ started' = st.started
         /\ intersected' = st.intersected
  /\ UNCHANGED outsideImages

\* newImg.onload: the fetch succeeded
OnLoad ==
  /\ \E i \in pending :
       /\ img' = [img EXCEPT ![i] = [dataSrc |-> NoSrc, src |-> img[i].dataSrc, class |-> "loaded"]]
       /\ pending' = pending \ {i}
  /\ UNCHANGED <<observed, loadedImages, started, intersected, outsideImages>>

\* newImg.onerror: the fetch failed
OnError ==
  /\ \E i \in pending :
       /\ img' = [img EXCEPT ![i].class = "error"]
       /\ pending' = pending \ {i}
  /\ UNCHANGED <<observed, loadedImages, started, intersected, outsideImages>>

NoRequest == [xff |-> Null, xreal |-> Null, body |-> Malformed]

\* no request has arrived
HandlerIdle ==
  /\ pc = [r \in Reqs |-> "idle"]
  /\ req = [r \in Reqs |-> NoRequest]
  /\ errors = [r \in Reqs |-> EmptyMap]
  /\ validated = [r \in Reqs |-> FALSE]
  /\ log = [r \in Reqs |-> << >>]
  /\ sent = [r \in Reqs |-> << >>]
  /\ sendResult = [r \in Reqs |-> NoResult]
  /\ response = [r \in Reqs |-> << >>]
  /\ path = [r \in Reqs |-> << >>]

ValidatorIdle == submission = BaseForm /\ returned = << >>

Init ==
  /\ resend \in BOOLEAN
  /\ HandlerIdle
  /\ ValidatorIdle
  /\ FormStart
  /\ ConsentIdle
  /\ ImagesStart

Next ==
  \E r \in Reqs :
    \/ Receive(r)
    \/ FormDataRejects(r)
    \/ FormDataResolves(r)
    \/ ArrayBufferResolves(r)
    \/ ArrayBufferRejects(r)
    \/ SendResolves(r)
    \/ SendRejects(r)

Spec == Init /\ [][Next]_vars

\* every pending await settles: the promise resolves or rejects
Step(r) ==
  \/ FormDataRejects(r)
  \/ FormDataResolves(r)
  \/ ArrayBufferResolves(r)
  \/ ArrayBufferRejects(r)
  \/ SendResolves(r)
  \/ SendRejects(r)

FairSpec == Spec /\ \A r \in Reqs : WF_vars(Step(r))

FormInit ==
  /\ FormStart
  /\ resend = TRUE
  /\ HandlerIdle
  /\ ValidatorIdle
  /\ ConsentIdle
  /\ ImagesStart

FormNext ==
  \/ Keystroke
  \/ FillMessage
  \/ EditField
  \/ OnSubmit
  \/ OnResponse

FormSpec == FormInit /\ [][FormNext]_vars

\* new ConsentManager(config): the state is loaded from what storage holds
ConsentInit ==
  /\ window \in BOOLEAN
  /\ config \in ConsentConfigs
  /\ \E ls \in StoredItems, ck \in StoredItems, setItemThrows \in BOOLEAN :
       \E loaded \in {loadConsentState(window, ls, ck, setItemThrows)} :
         /\ state = loaded.state
         /\ localStorage = loaded.stores.localStorage
         /\ cookie = loaded.stores.cookie
         /\ warned = loaded.warned
  /\ listeners = << >>
  /\ registered = << >>
  /\ lastOp = "new"
  /\ notified = << >>
  /\ effects = << >>
  /\ resend = TRUE
  /\ HandlerIdle
  /\ ValidatorIdle
  /\ FormStart
  /\ ImagesStart

ConsentNext ==
  \/ SetConsent
  \/ RevokeConsent
  \/ AcceptAll
  \/ AcceptRequired
  \/ AddListener
  \/ InitConsentManagement
  \/ Unsubscribe

ConsentSpec == ConsentInit /\ [][ConsentNext]_vars

ImagesInit ==
  /\ ImagesStart
  /\ resend = TRUE
  /\ HandlerIdle
  /\ ValidatorIdle
  /\ FormStart
  /\ ConsentIdle

ImagesNext ==
  \/ Observe
  \/ Unobserve
  \/ Disconnect
  \/ Intersect
  \/ OnLoad
  \/ OnError

ImagesSpec == ImagesInit /\ [][ImagesNext]_vars

(***************************************************************************)
(* The validators on their own: validateFormData and validateFile applied  *)
(* to one submission, every field varied independently of the others       *)
(***************************************************************************)
\* the last name ends in U+1680 OGHAM SPACE MARK
NameValues ==
  { Null, Str(""), Str("J"), Str(" J "), Str("  "), Str("Jo"),
    [kind |-> "string", v |-> JsString("J") \o <<5760>>] }

EmailValues ==
  { Null, Str(""), Str("a@b.co"), Str("invalid-email"), Str("a@b"), Str("a b@c.de"),
    Str("a@b@c.de"), Str("@b.co"), Str("a@b."), Str("a@.co"),
    \* U+00A0 NO-BREAK SPACE in the local part
    [kind |-> "string", v |-> JsString("a") \o <<160>> \o JsString("b@c.de")] }

PhoneValues ==
  { Null, Str(""), Str("+1234567890"), Str("invalid-phone"), Str("( )-"), Str("0123456"),
    Str("(123) 456-7890"), Str("1234567890123456"), Str("12345678901234567"), Str("+"),
    \* U+2028 LINE SEPARATOR between the digits
    [kind |-> "string", v |-> JsString("1") \o <<8232>> \o JsString("2")] }

MessageValues ==
  { Null, Str("1234567890"), Str("123456789"), Str(" 12345678 "), Str("Hello there"),
    Str("123456789\r\n") }

ConsentValues == {Null, Str("on")}

FileValues ==
  { Null,
    FileOf("max.pdf", maxSize, "application/pdf"),
    FileOf("big.pdf", maxSize + 1, "application/pdf"),
    FileOf("big.exe", maxSize + 1, "application/x-msdownload"),
    FileOf("run.exe", 1024, "application/x-msdownload"),
    FileOf("pic.png", 1024, "image/png") }

Submissions ==
  { [ kind |-> "form", name |-> n, email |-> e, phone |-> p, subject |-> Str("general"),
      message |-> m, consent |-> c, attachment |-> a ] :
      n \in NameValues, e \in EmailValues, p \in PhoneValues, m \in MessageValues,
      c \in ConsentValues, a \in FileValues }

\* lines 520-525: validateFormData and validateFile are applied to the
\* submission and return the combined ErrorMap
Validate ==
  /\ returned = << >>
  /\ returned' = <<combinedErrors(submission)>>
  /\ UNCHANGED <<submission, outsideValidator>>

ValidatorInit ==
  /\ submission \in Submissions
  /\ returned = << >>
  /\ resend = TRUE
  /\ HandlerIdle
  /\ FormStart
  /\ ConsentIdle
  /\ ImagesStart

ValidatorNext == Validate

ValidatorSpec == ValidatorInit /\ [][ValidatorNext]_vars

(***************************************************************************)
(* Properties                                                              *)
(***************************************************************************)
Last(q) == q[Len(q)]

Done(r) == pc[r] = "done"

\* C1: the provider's send is invoked only after validateFormData and
\* validateFile have both run and the combined ErrorMap is empty.
C1_ValidationBeforeDispatch ==
  \A r \in Reqs : sent[r] # << >> => (validated[r] /\ DOMAIN errors[r] = {})

\* a send call is pending for a validated submission carrying an attachment
C1_Witness ==
  \E r \in Reqs : pc[r] = "send" /\ Len(sent[r]) = 1 /\ Truthy(req[r].body.attachment)

\* the field rules of the Field Validator as the specification words them
SubjectAllowed(subject) == subject \in {Str(k) : k \in DOMAIN subjectOptions}

RuleFailingFields(f) ==
  {k \in {"name"} : ~Truthy(f.name) \/ Len(Trim(f.name.v)) < 2}
    \cup {k \in {"email"} : ~Truthy(f.email) \/ ~validateEmail(f.email.v)}
    \cup {k \in {"phone"} : Truthy(f.phone) /\ ~validatePhone(f.phone.v)}
    \cup {k \in {"subject"} : ~SubjectAllowed(f.subject)}
    \cup {k \in {"message"} : ~Truthy(f.message) \/ Len(Trim(f.message.v)) < 10}
    \cup {k \in {"consent"} : ~Truthy(f.consent)}

\* C2: the keys of the field ErrorMap are exactly the fields that fail their
\* rule (name, email, phone, subject, message, consent), all at once.
C2_AllFailingFields ==
  \A r \in Reqs :
    validated[r] => DOMAIN errors[r] \ {"attachment"} = RuleFailingFields(req[r].body)

DispatchFailedMessage == "Failed to send email. Please try again later."

UnexpectedErrorMessage == "An unexpected error occurred. Please try again later."

NotConfiguredMessage == "Email service not configured. Please try again later."

DispatchFailedBody == [success |-> FALSE, error |-> DispatchFailedMessage]

\* C3: every provider error yields the same HTTP 500 response with the fixed
\* dispatch-failure message; two runs that differ in the provider error get
\* identical responses.
C3_ProviderErrorHidden ==
  \A r1, r2 \in Reqs :
    (sendResult[r1].kind = "error" /\ sendResult[r2].kind = "error")
      => /\ response[r1] = <<[status |-> 500, body |-> DispatchFailedBody]>>
         /\ response[r1] = response[r2]

\* two requests were answered after two different provider errors
C3_Witness ==
  \E r1, r2 \in Reqs :
    /\ sendResult[r1].kind = "error" /\ sendResult[r2].kind = "error"
    /\ sendResult[r1].message # sendResult[r2].message
    /\ Done(r1) /\ Done(r2)

Only500Messages(allowed) ==
  \A r \in Reqs : \A i \in DOMAIN response[r] :
    response[r][i].status = 500
      => /\ DOMAIN response[r][i].body = {"success", "error"}
         /\ response[r][i].body.success = FALSE
         /\ response[r][i].body.error \in allowed

\* C4 (as claimed): every HTTP 500 body carries one of exactly two fixed
\* messages, the dispatch-failure one or the unexpected-error one.
C4_TwoFixedMessages == Only500Messages({DispatchFailedMessage, UnexpectedErrorMessage})

\* C4 (amended): every HTTP 500 body is {success:false, error:m} with m one
\* of three fixed messages: dispatch failure, unexpected error, or email
\* service not configured.
C4_ThreeFixedMessages ==
  Only500Messages({DispatchFailedMessage, UnexpectedErrorMessage, NotConfiguredMessage})

\* a valid submission was answered 500 because no API key is configured
C4_Witness ==
  \E r \in Reqs :
    /\ Done(r) /\ ~resend /\ validated[r] /\ DOMAIN errors[r] = {}
    /\ response[r] = <<notConfiguredResponse>>

\* the terminal state a response stands for
TerminalOf(resp) ==
  IF resp.status = 400 THEN "Rejected"
  ELSE IF resp.status = 200 THEN "Accepted"
  ELSE IF resp.status = 500 /\ resp.body.error = DispatchFailedMessage THEN "DispatchFailed"
  ELSE IF resp.status = 500 /\ resp.body.error = UnexpectedErrorMessage THEN "UnexpectedError"
  ELSE IF resp.status = 500 /\ resp.body.error = NotConfiguredMessage THEN "NotConfigured"
  ELSE "Other"

FourTerminals == {"Rejected", "Accepted", "DispatchFailed", "UnexpectedError"}

\* the transitions of the handler's state machine, as whole paths
FourStatePaths ==
  { <<"Received", "Validating", "Rejected">>,
    <<"Received", "Validating", "Dispatching", "Accepted">>,
    <<"Received", "Validating", "Dispatching", "DispatchFailed">>,
    <<"Received", "UnexpectedError">>,
    <<"Received", "Validating", "UnexpectedError">>,
    <<"Received", "Validating", "Dispatching", "UnexpectedError">> }

EndsProperly(r, terminals, paths) ==
  /\ Len(response[r]) = 1
  /\ TerminalOf(response[r][1]) \in terminals
  /\ Last(path[r]) = TerminalOf(response[r][1])
  /\ path[r] \in paths

\* C5 (as claimed): a finished execution has returned exactly one response
\* and ended in one of the four terminal states Rejected, Accepted,
\* DispatchFailed, UnexpectedError along the listed transitions.
C5_FourTerminalStates ==
  \A r \in Reqs : Done(r) => EndsProperly(r, FourTerminals, FourStatePaths)

\* C5 (amended): provided every await settles, every execution returns
\* exactly one response and ends in exactly one of five terminal states:
\* Rejected(400), Accepted(200), DispatchFailed(500), UnexpectedError(500) or
\* NotConfigured(500, reached from Dispatching when no API key is set and
\* before any send); no response is returned before the terminal state.
C5_FiveTerminalStates ==
  /\ [](\A r \in Reqs :
          /\ Done(r) => EndsProperly(r, FourTerminals \cup {"NotConfigured"},
                          FourStatePaths \cup {<<"Received", "Validating", "Dispatching", "NotConfigured">>})
          /\ ~Done(r) => response[r] = << >>)
  /\ \A r \in Reqs : (pc[r] # "idle") ~> Done(r)

\* an execution ended in the fifth terminal state without calling send
C5_Witness ==
  \E r \in Reqs :
    /\ Done(r) /\ Last(path[r]) = "NotConfigured"
    /\ sent[r] = << >> /\ Len(response[r]) = 1

\* C6: every submission whose subject is empty or not an allowed category
\* gets the error "Please select a subject" and is never dispatched.
C6_SubjectEnum ==
  \A r \in Reqs :
    /\ (validated[r] /\ ~SubjectAllowed(req[r].body.subject))
         => ("subject" \in DOMAIN errors[r] /\ errors[r]["subject"] = "Please select a subject")
    /\ sent[r] # << >> => SubjectAllowed(req[r].body.subject)

\* the consent field says yes: a checked checkbox ("on") or the literal "true"
ConsentIsTrue(consent) == consent \in {Str("on"), Str("true")}

\* C7: every submission whose consent is not true (absent, empty or any other
\* string) gets the consent error, and only a consenting one is dispatched.
C7_ConsentRequired ==
  \A r \in Reqs :
    /\ (validated[r] /\ ~ConsentIsTrue(req[r].body.consent))
         => ("consent" \in DOMAIN errors[r]
             /\ errors[r]["consent"] = "You must agree to the terms and conditions")
    /\ sent[r] # << >> => ConsentIsTrue(req[r].body.consent)

\* no file was chosen: the part is missing, or it is the empty unnamed part
NoFileSelected(file) ==
  \/ file.kind = "null"
  \/ (file.kind = "file" /\ file.name = "" /\ file.size = 0)

\* C8: a submission with no file selected never gets an attachment error.
C8_NoFileNoError ==
  \A r \in Reqs :
    (validated[r] /\ NoFileSelected(req[r].body.attachment))
      => "attachment" \notin DOMAIN errors[r]

\* the part of an address before its first '@' (all of it without an '@')
LocalPart(s) ==
  IF AtPositions(s) = {} THEN s ELSE SubSeq(s, 1, MinOf(AtPositions(s)) - 1)

IsPrefix(p, s) == Len(p) <= Len(s) /\ SubSeq(s, 1, Len(p)) = p

\* C9: a log record that carries the submitter's email carries it masked: it
\* never shows the complete local part of the submitted address.
C9_EmailMasked ==
  \A r \in Reqs : \A i \in DOMAIN log[r] :
    ("email" \in DOMAIN log[r][i] /\ req[r].body.kind = "form" /\ req[r].body.email.kind = "string"
       /\ req[r].body.email.v # << >>)
      => /\ log[r][i].email # req[r].body.email.v
         /\ ~IsPrefix(LocalPart(req[r].body.email.v), log[r][i].email)

\* C10: no log record carries the raw x-forwarded-for or x-real-ip address.
C10_IpMasked ==
  \A r \in Reqs : \A i \in DOMAIN log[r] :
    "ip" \in DOMAIN log[r][i]
      => /\ Truthy(req[r].xff) => log[r][i].ip # req[r].xff
         /\ Truthy(req[r].xreal) => log[r][i].ip # req[r].xreal

\* the provider call of request r returned, and returned no error
SentWithoutError(r) == sent[r] # << >> /\ sendResult[r].kind = "ok"

IsSuccessResponse(resp) ==
  resp.status = 200 /\ resp.body = [success |-> TRUE, message |-> "Email sent successfully"]

\* C11: the handler answers 200 {success: true, message: "Email sent
\* successfully"} exactly when validation left the ErrorMap empty and the
\* provider call was made and returned without an error.
C11_SuccessIffSent ==
  \A r \in Reqs :
    /\ (\E i \in DOMAIN response[r] : response[r][i].status = 200)
         <=> (validated[r] /\ DOMAIN errors[r] = {} /\ SentWithoutError(r))
    /\ \A i \in DOMAIN response[r] :
         response[r][i].status = 200 => IsSuccessResponse(response[r][i])

C11_Witness ==
  \E r \in Reqs :
    /\ Done(r) /\ validated[r] /\ DOMAIN errors[r] = {} /\ SentWithoutError(r)
    /\ response[r] = <<[status |-> 200,
                        body |-> [success |-> TRUE, message |-> "Email sent successfully"]]>>

\* the six text fields as the client submitted them
Submitted(f) ==
  [k \in {"name", "email", "phone", "subject", "message", "consent"} |-> f[k]]

\* C12: whenever validation leaves a non-empty ErrorMap the handler answers
\* 400 with {success: false, errors: that ErrorMap, data: the six submitted
\* fields unchanged}, and answers nothing else.
C12_RejectedEchoesErrors ==
  \A r \in Reqs :
    (validated[r] /\ DOMAIN errors[r] # {})
      => /\ Done(r)
         /\ response[r] = <<[status |-> 400,
                             body |-> [success |-> FALSE,
                                       errors |-> errors[r],
                                       data |-> Submitted(req[r].body)]]>>

C12_Witness ==
  \E r \in Reqs :
    /\ validated[r] /\ Cardinality(DOMAIN errors[r]) >= 2
    /\ Len(response[r]) = 1 /\ response[r][1].status = 400

\* the log of request r holds an error record with this message
LoggedError(r, message) ==
  \E i \in DOMAIN log[r] :
    /\ "error" \in DOMAIN log[r][i]
    /\ log[r][i].error = message

\* the attachment of request r could not be read
ReadFailed(r) == LoggedError(r, "The requested file could not be read")

\* a text field that the handler calls a string method on holds a File
UnexpectedType(f) ==
  \E k \in {"name", "email", "phone", "message"} : f[k].kind = "file"

\* an exception was raised while request r was handled: the body could not
\* be parsed, a field had an unexpected type, the attachment read or the
\* provider call threw
Thrown(r) ==
  \/ /\ pc[r] \notin {"idle", "formData"}
     /\ \/ req[r].body.kind = "malformed"
        \/ (req[r].body.kind = "form" /\ UnexpectedType(req[r].body))
  \/ ReadFailed(r)
  \/ sendResult[r] = Threw

\* C13: every exception raised in the handler is caught and answered with
\* status 500 and "An unexpected error occurred. Please try again later.";
\* the handler still returns exactly one response, never a 200 or a 400.
C13_ExceptionsCaught ==
  \A r \in Reqs :
    Thrown(r)
      => /\ Done(r)
         /\ response[r] = <<[status |-> 500,
                             body |-> [success |-> FALSE,
                                       error |-> "An unexpected error occurred. Please try again later."]]>>

\* a File in a text field and a throwing provider call have both been caught
C13_Witness ==
  /\ \E r \in Reqs :
       /\ req[r].body.kind = "form" /\ UnexpectedType(req[r].body)
       /\ Len(response[r]) = 1 /\ response[r][1].status = 500
  /\ \E r \in Reqs :
       /\ sendResult[r] = Threw
       /\ Len(response[r]) = 1 /\ response[r][1].status = 500

\* request r passed validation with an empty ErrorMap and has been answered
ValidAndDone(r) == Done(r) /\ validated[r] /\ DOMAIN errors[r] = {}

\* C14 as stated: send is invoked at most once per request, and exactly once
\* for every submission that passed validation.
C14_ExactlyOncePerValid ==
  \A r \in Reqs :
    /\ Len(sent[r]) <= 1
    /\ ValidAndDone(r) => Len(sent[r]) = 1

\* C14: send is invoked at most once per request, also after a provider
\* error or an exception, and exactly once for every submission that passed
\* validation when the email client is configured and the attachment, if
\* any, could be read.
C14_AtMostOnce ==
  \A r \in Reqs :
    /\ Len(sent[r]) <= 1
    /\ (ValidAndDone(r) /\ resend /\ ~ReadFailed(r)) => Len(sent[r]) = 1
    /\ (ValidAndDone(r) /\ (~resend \/ ReadFailed(r))) => sent[r] = << >>

C14_Witness ==
  /\ \E r \in Reqs : ValidAndDone(r) /\ sendResult[r].kind = "error" /\ Len(sent[r]) = 1
  /\ \E r \in Reqs : ValidAndDone(r) /\ sendResult[r] = Threw /\ Len(sent[r]) = 1

\* C15: validation is deterministic and history-free: two requests carrying
\* equal submissions get equal ErrorMaps whatever was handled before or in
\* between, and an ErrorMap holds entries only for fields of its own
\* submission that fail, never one left over from another request.
C15_HistoryFree ==
  /\ \A r1, r2 \in Reqs :
       (validated[r1] /\ validated[r2] /\ req[r1].body = req[r2].body)
         => errors[r1] = errors[r2]
  /\ \A r \in Reqs :
       validated[r]
         => /\ DOMAIN errors[r] \ {"attachment"} \subseteq RuleFailingFields(req[r].body)
            /\ "attachment" \in DOMAIN errors[r] => Truthy(req[r].body.attachment)

\* a failing and a passing submission have both been validated and answered
C15_Witness ==
  \E r1, r2 \in Reqs :
    /\ validated[r1] /\ validated[r2]
    /\ DOMAIN errors[r1] # {} /\ DOMAIN errors[r2] = {}
    /\ Done(r1) /\ Done(r2)

\* the validators have run on the submission
Validated == returned # << >>

\* the ErrorMap has (only) this message under this key
HasError(m, k, message) == k \in DOMAIN m /\ m[k] = message

FileSizeMessage == "File size must be less than 5MB"

FileTypeMessage ==
  "File type not allowed. Please upload PDF, DOC, DOCX, TXT, JPG, JPEG, PNG, or GIF files"

\* C16: for a present file the attachment entry is the size message exactly
\* when the size exceeds 5 * 1024 * 1024 bytes (exactly 5 MB passes),
\* otherwise the type message exactly when the MIME type is not allowed,
\* otherwise absent; size wins when both fail, whatever the other fields are.
C16_FileRule ==
  (Validated /\ submission.attachment.kind = "file")
    => LET file == submission.attachment
       IN  IF file.size > 5 * 1024 * 1024
           THEN HasError(returned[1], "attachment", FileSizeMessage)
           ELSE IF file.type \notin allowedTypes
           THEN HasError(returned[1], "attachment", FileTypeMessage)
           ELSE "attachment" \notin DOMAIN returned[1]

\* a file of exactly 5 MB passed while other fields of its submission failed
C16_Witness ==
  /\ Validated
  /\ submission.attachment.kind = "file"
  /\ submission.attachment.size = 5 * 1024 * 1024
  /\ "attachment" \notin DOMAIN returned[1]
  /\ {"name", "email"} \subseteq DOMAIN returned[1]

\* a non-empty run of characters none of which is whitespace or '@'
Plain(s) ==
  s # << >> /\ \A i \in 1..Len(s) : ~IsSpace(CharAt(s, i)) /\ CharAt(s, i) # CodeUnit("@")

\* local@domain.tld: three plain parts around an '@' and a later '.'
EmailShape(s) ==
  \E a, d \in 1..Len(s) :
    /\ a < d
    /\ CharAt(s, a) = CodeUnit("@")
    /\ CharAt(s, d) = CodeUnit(".")
    /\ Plain(SubSeq(s, 1, a - 1))
    /\ Plain(SubSeq(s, a + 1, d - 1))
    /\ Plain(SubSeq(s, d + 1, Len(s)))

\* C17: the email entry is "Email is required" exactly when the email is
\* empty or absent, "Please enter a valid email address" exactly when it is
\* non-empty and has not the shape local@domain.tld, and absent otherwise.
C17_EmailRule ==
  Validated
    => LET e == submission.email
           m == returned[1]
       IN  IF ~Truthy(e)
           THEN HasError(m, "email", "Email is required")
           ELSE IF ~EmailShape(e.v)
           THEN HasError(m, "email", "Please enter a valid email address")
           ELSE "email" \notin DOMAIN m

\* an address without a top-level domain got the format message
C17_Witness ==
  /\ Validated
  /\ submission.email = Str("a@b")
  /\ HasError(returned[1], "email", "Please enter a valid email address")

\* positions of the characters of s that are not whitespace, '-', '(' or ')'
Kept(s) ==
  {i \in 1..Len(s) :
     ~IsSpace(CharAt(s, i))
       /\ CharAt(s, i) \notin {CodeUnit("-"), CodeUnit("("), CodeUnit(")")}}

\* what is left of s is an optional '+', a digit 1-9 and at most 15 digits
PhoneShape(s) ==
  /\ Kept(s) # {}
  /\ LET first  == MinOf(Kept(s))
         digits == IF CharAt(s, first) = CodeUnit("+") THEN Kept(s) \ {first} ELSE Kept(s)
     IN  /\ digits # {}
         /\ Cardinality(digits) <= 16
         /\ \A i \in digits : IsDigit(CharAt(s, i))
         /\ CharAt(s, MinOf(digits)) # CodeUnit("0")

\* C18: an empty or absent phone never gets an error; a non-empty phone gets
\* "Please enter a valid phone number" exactly when, whitespace, hyphens and
\* parentheses removed, it is not an optional '+', a digit 1-9 and at most
\* 15 further digits.
C18_PhoneRule ==
  Validated
    => LET p == submission.phone
           m == returned[1]
       IN  IF Truthy(p) /\ ~PhoneShape(p.v)
           THEN HasError(m, "phone", "Please enter a valid phone number")
           ELSE "phone" \notin DOMAIN m

\* a phone made of stripped characters only got the error
C18_Witness ==
  /\ Validated
  /\ submission.phone = Str("( )-")
  /\ HasError(returned[1], "phone", "Please enter a valid phone number")

\* s without its leading and trailing whitespace has at least n characters:
\* two non-blank characters of s lie at least n - 1 positions apart
TrimmedAtLeast(s, n) ==
  \E i, j \in 1..Len(s) :
    /\ ~IsSpace(CharAt(s, i))
    /\ ~IsSpace(CharAt(s, j))
    /\ j - i >= n - 1

\* C19: the name entry is present exactly when the name is absent or its
\* trimmed length is below 2: two spaces or one padded character fail, a
\* two-character name passes.
C19_NameRule ==
  Validated
    => LET n == submission.name
           m == returned[1]
       IN  IF Truthy(n) /\ TrimmedAtLeast(n.v, 2)
           THEN "name" \notin DOMAIN m
           ELSE HasError(m, "name", "Name must be at least 2 characters long")

\* a single character padded with blanks was refused
C19_Witness ==
  /\ Validated
  /\ submission.name = Str(" J ")
  /\ HasError(returned[1], "name", "Name must be at least 2 characters long")

\* C20: the message entry is present exactly when the message is absent or
\* its trimmed length is below 10: exactly 10 non-blank characters pass, 10
\* characters with leading or trailing blanks fail.
C20_MessageRule ==
  Validated
    => LET msg == submission.message
           m   == returned[1]
       IN  IF Truthy(msg) /\ TrimmedAtLeast(msg.v, 10)
           THEN "message" \notin DOMAIN m
           ELSE HasError(m, "message", "Message must be at least 10 characters long")

\* ten characters of which two are blanks at the ends were refused
C20_Witness ==
  /\ Validated
  /\ submission.message = Str(" 12345678 ")
  /\ HasError(returned[1], "message", "Message must be at least 10 characters long")

\* C21: the form never has two submissions in flight: a submit trigger
\* while Submitting is ignored, so any number of rapid clicks before the
\* response arrives make exactly one POST to /api/contact.
C21_SingleFlight ==
  /\ inFlight <= 1
  /\ uiState = "Submitting" => inFlight = 1
  /\ uiState = "Idle" => inFlight = 0

\* two further submit triggers came while the one request was in flight
C21_Witness == uiState = "Submitting" /\ ignored = 2 /\ inFlight = 1

\* a step of the controller: a submit trigger or an arriving response
ControllerStep == inFlight' # inFlight \/ ignored' # ignored

\* C22: of the controller's transitions only the one taken on a success
\* response changes the entered values and the selected file, and it clears
\* them; a 400, a 500 and a network failure leave every value as it was.
C22_OnlySuccessClears ==
  [][ControllerStep
       => IF uiState = "Submitting" /\ uiState' = "Idle" /\ outcome' = "success"
          THEN values' = EmptyValues
          ELSE values' = values]_vars

\* a submission of a filled form failed and the values are still there
C22_Witness ==
  /\ uiState = "Idle"
  /\ outcome \in {"fieldErrors", "serverError", "networkFailure"}
  /\ values.name # "" /\ values.message # << >> /\ values.consent /\ values.file # "none"

\* characters of m that take two UTF-16 code units
Astral(m) == {i \in DOMAIN m : m[i] = "emoji"}

\* C23: in every reachable state, the initial one included, the character
\* counter shows the JavaScript length of the message: its characters
\* counted in UTF-16 code units, not in bytes or graphemes.
C23_CounterExact == charCount = Len(values.message) + Cardinality(Astral(values.message))

\* the counter shows 3 for one accented letter and one emoji (2 graphemes,
\* 6 bytes)
C23_Witness ==
  /\ values.message = <<"e-acute", "emoji">>
  /\ charCount = 3
  /\ charCount # Len(values.message)
  /\ charCount # Utf8Bytes("e-acute") + Utf8Bytes("emoji")

\* positions of the logResponse records in the log of request r
ResponseLogs(r) == {i \in DOMAIN log[r] : log[r][i].msg = "API Response"}

\* C24: the first record a handler logs is the incoming request; every
\* response it returns comes with exactly one logResponse record, written
\* last, carrying the response's status and the time since the request
\* started; before the response there is no such record.
C24_ResponseLogged ==
  \A r \in Reqs :
    /\ pc[r] # "idle" => log[r][1].msg = "API Request"
    /\ Cardinality(ResponseLogs(r)) = Len(response[r])
    /\ Done(r)
         => /\ Len(response[r]) = 1
            /\ ResponseLogs(r) = {Len(log[r])}
            /\ Last(log[r]).status = response[r][1].status
            /\ Last(log[r]).responseTime.since = "startTime"

\* a 400 and a caught exception have both been logged
C24_Witness ==
  \E r1, r2 \in Reqs :
    /\ Done(r1) /\ response[r1][1].status = 400 /\ Last(log[r1]).status = 400
    /\ Done(r2) /\ Last(path[r2]) = "UnexpectedError" /\ Last(log[r2]).status = 500

\* the response request r gets when it is the only request: decided by its
\* own submission, the configuration and what its own awaits returned
AloneResponse(r) ==
  IF Thrown(r)
  THEN [status |-> 500, body |-> [success |-> FALSE, error |-> UnexpectedErrorMessage]]
  ELSE IF DOMAIN combinedErrors(req[r].body) # {}
  THEN [status |-> 400,
        body |-> [success |-> FALSE,
                  errors |-> combinedErrors(req[r].body),
                  data |-> [k \in DOMAIN Submitted(req[r].body) |->
                              IF Submitted(req[r].body)[k].kind = "file"
                              THEN [kind |-> "object"]
                              ELSE Submitted(req[r].body)[k]]]]
  ELSE IF ~resend
  THEN [status |-> 500, body |-> [success |-> FALSE, error |-> NotConfiguredMessage]]
  ELSE IF sendResult[r].kind = "error"
  THEN [status |-> 500, body |-> DispatchFailedBody]
  ELSE [status |-> 200, body |-> [success |-> TRUE, message |-> "Email sent successfully"]]

\* the calls of send request r causes when it is the only request
AloneSent(r) ==
  IF req[r].body.kind = "form" /\ ~UnexpectedType(req[r].body)
     /\ DOMAIN combinedErrors(req[r].body) = {} /\ resend /\ ~ReadFailed(r)
  THEN << [ from          |-> "noreply@yourdomain.com",
            to            |-> "hello@example.com",
            subject       |-> emailSubject(req[r].body.subject),
            hasAttachment |-> Truthy(req[r].body.attachment) ] >>
  ELSE << >>

\* C25: under every interleaving of two handler executions at their awaits
\* each request gets the response and causes the dispatch it would get and
\* cause alone; two requests that are equal and whose awaits return the same
\* end the same.
C25_Independent ==
  /\ \A r \in Reqs :
       Done(r) => response[r] = <<AloneResponse(r)>> /\ sent[r] = AloneSent(r)
  /\ \A r1, r2 \in Reqs :
       (Done(r1) /\ Done(r2) /\ req[r1] = req[r2] /\ sendResult[r1] = sendResult[r2]
          /\ (ReadFailed(r1) <=> ReadFailed(r2)))
         => response[r1] = response[r2] /\ sent[r1] = sent[r2]

\* two different valid requests have both been answered, one after its
\* attachment was read and sent, the other with a provider error
C25_Witness ==
  \E r1, r2 \in Reqs :
    /\ Done(r1) /\ Done(r2)
    /\ req[r1].body.kind = "form" /\ req[r2].body.kind = "form"
    /\ req[r1].body.subject # req[r2].body.subject
    /\ Len(sent[r1]) = 1 /\ sent[r1][1].hasAttachment /\ response[r1][1].status = 200
    /\ Len(sent[r2]) = 1 /\ sendResult[r2].kind = "error"

\* the display labels of the five subject categories
SubjectLabels ==
  {"General Inquiry", "Technical Support", "Partnership Opportunity",
   "Feedback & Suggestions", "Other"}

\* "Contact Form: " followed by a label, as a string
LabelSubjectLines == {JsString("Contact Form: " \o l) : l \in SubjectLabels}

\* C26: the subject line of every dispatched email is "Contact Form: "
\* followed by the display label of a subject category, never the raw
\* submitted value or anything else.
C26_SubjectLineIsLabel ==
  \A r \in Reqs : \A i \in DOMAIN sent[r] :
    /\ sent[r][i].subject \in LabelSubjectLines
    /\ sent[r][i].subject # JsString("Contact Form: ") \o ToStr(req[r].body.subject)

\* the state permits a category: consent was given and covers it
Permits(st, type) == hasConsentFor(st, type)

\* the listener of initConsentManagement is installed
InitListenerInstalled == \E i \in DOMAIN listeners : listeners[i] = "init"

\* C27: whenever a consent change makes the state stop permitting analytics
\* (marketing), the listener installed by initConsentManagement calls
\* disableAnalytics (disableMarketing); revoking all consent after
\* analytics was initialized is one such change.
C27_RevocationDisables ==
  [][(InitListenerInstalled /\ lastOp' \in {"setConsent", "acceptAll", "acceptRequired", "revokeConsent"})
       => /\ (Permits(state, "analytics") /\ ~Permits(state', "analytics"))
               => \E i \in DOMAIN effects' : effects'[i] = "disableAnalytics"
          /\ (Permits(state, "marketing") /\ ~Permits(state', "marketing"))
               => \E i \in DOMAIN effects' : effects'[i] = "disableMarketing"]_vars

\* C28: in every reachable state of a ConsentManager, whatever storage held
\* at construction and whatever was called since,
\* getConsentState().preferences.required is true.
C28_RequiredAlwaysTrue == getConsentState(state).preferences.required = TRUE

\* the listener functions of the registrations not yet unsubscribed, in
\* registration order
RECURSIVE LiveFrom(_, _)
LiveFrom(regs, i) ==
  IF i > Len(regs) THEN << >>
  ELSE (IF regs[i].unsubscribed THEN << >> ELSE <<regs[i].fn>>) \o LiveFrom(regs, i + 1)

\* C30: a consent change calls exactly the listeners whose registration has
\* not been unsubscribed, once per registration, in registration order and
\* with the new state, a throwing listener notwithstanding, and the new
\* state is saved unless storage refused it; an unsubscribe, even a
\* repeated one, removes only its own registration.
C30_ListenersNotified ==
  lastOp \in {"setConsent", "acceptAll", "acceptRequired", "revokeConsent"}
    => /\ Len(notified) = Len(LiveFrom(registered, 1))
       /\ \A i \in DOMAIN notified :
            /\ notified[i].fn = LiveFrom(registered, 1)[i]
            /\ notified[i].state = state
       /\ (window /\ \A i \in DOMAIN warned : warned[i] # "Failed to save consent state:")
            => localStorage = Json(state)

\* C29: every image with a data-src that became intersecting while observed
\* has had its load started, exactly once, also when it shares its data-src
\* with other images, and once the fetch has succeeded its src is that
\* data-src; no image has its load started more than once.
C29_IntersectingImagesLoad ==
  \A i \in Images :
    /\ started[i] <= 1
    /\ (intersected[i] /\ InitialDataSrc[i] # NoSrc)
         => /\ started[i] = 1
            /\ (i \notin pending /\ img[i].class # "error") => img[i].src = InitialDataSrc[i]

====
